---- MODULE Spec2Model ----
(***************************************************************************)
(* tgpin: one process run = import of tgpin.py (configuration is loaded    *)
(* and validated), then main(): setup_database, process_pinned_messages,   *)
(* update_database, get_recent_messages, the two alerts, close.  The       *)
(* SQLite table pinned_messages survives from one run to the next.         *)
(*                                                                         *)
(* tgpin.py addresses the Database through table-less calls                *)
(* (create_table(), remove_unpinned_messages(ids), insert_or_ignore(values,*)
(* flag), get_recent_messages_by_date(date)); they are bound here to the   *)
(* methods of db/db.py on the one table the program names,                 *)
(* "pinned_messages" (tgpin.py:194, db.py:175).                            *)
(*                                                                         *)
(* Dates are instants on an integer scale: the program stores the ISO-8601 *)
(* text of the date in one configured zone and SQLite compares the texts;  *)
(* for a zone of fixed offset that order is the order of the instants.     *)
(***************************************************************************)
EXTENDS Integers, Sequences, FiniteSets, TLC

\* ------------------------------------------------------------------ bounds
MaxId == 2       \* message ids of the channel are 1..MaxId
MaxDate == 2     \* message dates are 1..MaxDate
MaxRuns == 3     \* process runs in one behaviour

Ids == 1..MaxId
Dates == 1..MaxDate
NoPhoto == "NULL"
\* a text message, and a photo with its caption
Bodies == {[message |-> "a", photo |-> NoPhoto], [message |-> "b", photo |-> "png"]}
\* datetime.now(TZ) as read by get_recent_messages
Nows == 1..(MaxDate + 1)

\* SQL NULL / Python None where a date is expected
None == -1

\* ------------------------------------------------------------ configuration
\* option values as configparser holds them
RawBools == {"0", "1"}
ApiIds == {"YOUR_API_ID", "12345"}
Limits == {-1, 0, 1}

\* ConfigIni.getboolean: configparser's BOOLEAN_STATES
getboolean(raw) == raw \in {"1", "yes", "true", "on"}

\* A Python object read through DynamicConfig: every option value is a str.
DynamicConfig(raw) == [type |-> "str", repr |-> raw]
\* The bool singleton True.
True == [type |-> "bool", repr |-> "True"]
False == [type |-> "bool", repr |-> "False"]
\* x is y
Is(x, y) == x = y

Configs ==
    [alert_new_get_by_time_window : RawBools,
     alert_new_get_by_last_update : RawBools,
     alert_new : RawBools,
     alert_reminder : RawBools,
     alert_reminder_limit : Limits,
     alert_new_time_window_minutes : {1},
     api_id : ApiIds]

\* validate_config: "ok", or the ValueError it raises
validate_config(config) ==
    IF /\ Is(DynamicConfig(config.alert_new_get_by_time_window), True)
       /\ Is(DynamicConfig(config.alert_new_get_by_last_update), True)
    THEN "ValueError: cannot both be set to 1"
    ELSE IF /\ Is(DynamicConfig(config.alert_new_get_by_time_window), False)
            /\ Is(DynamicConfig(config.alert_new_get_by_last_update), False)
    THEN "ValueError: cannot both be set to 0"
    ELSE IF config.api_id \in {"", "YOUR_API_ID"}
    THEN "ValueError: Please set your API ID"
    ELSE "ok"

\* ------------------------------------------------------------------ helpers
Max(S) == CHOOSE x \in S : \A y \in S : y <= x
Min(S) == CHOOSE x \in S : \A y \in S : x <= y
Range(s) == {s[i] : i \in 1..Len(s)}

\* sorted(S): the ascending sequence of a set of integers
RECURSIVE sorted(_)
sorted(S) == IF S = {} THEN <<>> ELSE <<Min(S)>> \o sorted(S \ {Min(S)})

\* ----------------------------------------------------------------- Database
\* The table is the set of its rows [id, message_id, message, date, photo].

\* A row id allocator that fills the lowest free id.
NewRowId_lowest_free(rows) ==
    Min({n \in 1..(Cardinality(rows) + 1) : \A r \in rows : r.id # n})

\* INTEGER PRIMARY KEY without AUTOINCREMENT: a new row gets one more than
\* the largest id in the table, 1 in an empty table.
NewRowId(rows) == IF rows = {} THEN 1 ELSE Max({r.id : r \in rows}) + 1

\* INSERT OR REPLACE: the old row is deleted and a new one inserted.
InsertOrReplaceRow(rows, v) ==
    LET kept == {r \in rows : r.message_id # v.message_id}
    IN  kept \cup {[id |-> NewRowId(rows), message_id |-> v.message_id,
                    message |-> v.message, date |-> v.date, photo |-> v.photo]}

\* INSERT ... ON CONFLICT(message_id) DO UPDATE: the row is updated in place.
InsertOrUpdateRow(rows, v) ==
    IF \E r \in rows : r.message_id = v.message_id
    THEN {IF r.message_id = v.message_id
          THEN [r EXCEPT !.message = v.message, !.date = v.date, !.photo = v.photo]
          ELSE r : r \in rows}
    ELSE rows \cup {[id |-> NewRowId(rows), message_id |-> v.message_id,
                     message |-> v.message, date |-> v.date, photo |-> v.photo]}

\* INSERT OR IGNORE of one tuple: message_id is UNIQUE
InsertOrIgnoreRow(rows, v) ==
    IF \E r \in rows : r.message_id = v.message_id
    THEN rows
    ELSE rows \cup {[id |-> NewRowId(rows), message_id |-> v.message_id,
                     message |-> v.message, date |-> v.date, photo |-> v.photo]}

RECURSIVE executemany(_, _)
executemany(rows, values) ==
    IF values = <<>> THEN rows
    ELSE executemany(InsertOrIgnoreRow(rows, Head(values)), Tail(values))

\* SELECT MAX(date)
get_last_update(rows) ==
    IF rows = {} THEN None ELSE Max({r.date : r \in rows})

\* insert_or_ignore: the table afterwards and the value returned
insert_or_ignore(rows, values, flag) ==
    LET last_update == get_last_update(rows)
    IN  [rows |-> executemany(rows, values),
         ret |-> IF flag THEN last_update ELSE None]

\* A delete that is skipped when there is no id to keep.
remove_messages_unless_empty(rows, message_ids) ==
    IF message_ids = <<>> THEN rows
    ELSE {r \in rows : r.message_id \in Range(message_ids)}

\* DELETE ... WHERE message_id NOT IN (message_ids)
remove_messages(rows, message_ids) ==
    {r \in rows : r.message_id \in Range(message_ids)}

get_count(rows) == Cardinality(rows)

\* SELECT * without ORDER BY: the table is scanned in rowid order
RECURSIVE fetchall(_)
fetchall(S) ==
    IF S = {} THEN <<>>
    ELSE LET r == CHOOSE x \in S : \A y \in S : x.id <= y.id
         IN  <<r>> \o fetchall(S \ {r})

\* SELECT * WHERE date >= ?
get_recent_messages_by_date_inclusive(rows, date_value) ==
    fetchall({r \in rows : r.date >= date_value})

\* SELECT * WHERE date > ?
get_recent_messages_by_date(rows, date_value) ==
    fetchall({r \in rows : r.date > date_value})

\* ORDER BY RANDOM() LIMIT count: every list the query can return.  A negative
\* LIMIT is no limit in SQLite.
Perms(S) ==
    {s \in [1..Cardinality(S) -> S] : \A i, j \in 1..Cardinality(S) : s[i] = s[j] => i = j}
get_random_messages(rows, count) ==
    LET n == IF count < 0 \/ count > Cardinality(rows) THEN Cardinality(rows) ELSE count
    IN  {SubSeq(p, 1, n) : p \in Perms(rows)}

\* ------------------------------------------------------------------ fetching
\* What the channel holds pinned: a set of ids with text, date and photo.
Messages == {[message |-> b.message, date |-> d, photo |-> b.photo] : b \in Bodies, d \in Dates}
Pinned == UNION {[S -> Messages] : S \in SUBSET Ids}

\* process_pinned_messages: the tuples sorted by message id
pin_data_of(pinned) ==
    LET ids == sorted(DOMAIN pinned)
    IN  [i \in 1..Len(ids) |->
            [message_id |-> ids[i], message |-> pinned[ids[i]].message,
             date |-> pinned[ids[i]].date, photo |-> pinned[ids[i]].photo]]

\* ------------------------------------------------------------------ tgpin.py
\* update_database: messages_ids = [m[0] for m in pin_data]
messages_ids(pin) == [i \in 1..Len(pin) |-> pin[i].message_id]

\* update_database as a whole: the prune, then the insert
update_database(rows, pin, flag) ==
    insert_or_ignore(remove_messages(rows, messages_ids(pin)), pin, flag)

\* A setup that never leaves the configured policy.
setup_database_no_fallback(exists, config) ==
    [table_exists |-> TRUE,
     alert_new_get_by_time_window |-> getboolean(config.alert_new_get_by_time_window),
     alert_new_get_by_last_update |-> getboolean(config.alert_new_get_by_last_update)]

\* A setup that leaves last_update for time_window in every run.
setup_database_always_fallback(exists, config) ==
    LET lu == getboolean(config.alert_new_get_by_last_update)
        tw == getboolean(config.alert_new_get_by_time_window)
    IN  [table_exists |-> TRUE,
         alert_new_get_by_time_window |-> IF lu THEN TRUE ELSE tw,
         alert_new_get_by_last_update |-> IF lu THEN FALSE ELSE lu]

\* setup_database: the two switches it returns, and whether the table exists
\* afterwards
setup_database(exists, config) ==
    LET lu == getboolean(config.alert_new_get_by_last_update)
        tw == getboolean(config.alert_new_get_by_time_window)
    IN  IF ~exists
        THEN [table_exists |-> TRUE,
              alert_new_get_by_time_window |-> IF lu THEN TRUE ELSE tw,
              alert_new_get_by_last_update |-> IF lu THEN FALSE ELSE lu]
        ELSE [table_exists |-> exists,
              alert_new_get_by_time_window |-> tw,
              alert_new_get_by_last_update |-> lu]

\* A policy step that asks for the watermark first.
get_recent_messages_last_update_first(rows, tw_on, lu_on, last, window_start) ==
    IF lu_on /\ last # None THEN get_recent_messages_by_date(rows, last)
    ELSE IF tw_on THEN get_recent_messages_by_date(rows, window_start)
    ELSE <<>>

\* get_recent_messages, given now - the window
get_recent_messages(rows, tw_on, lu_on, last, window_start) ==
    IF tw_on THEN get_recent_messages_by_date(rows, window_start)
    ELSE IF lu_on /\ last # None THEN get_recent_messages_by_date(rows, last)
    ELSE <<>>

\* -------------------------------------------------------------------- state
VARIABLES
    config,            \* CONFIG, as loaded
    pc,                \* where the run is
    runs,              \* number of the run
    table_exists,      \* sqlite_master has pinned_messages
    rows,              \* the rows of pinned_messages
    alert_tw,          \* main's alert_new_get_by_time_window
    alert_lu,          \* main's alert_new_get_by_last_update
    pin_data,          \* main's pin_data
    last_update,       \* main's last_update
    recent_messages,   \* main's recent_messages
    time_window,       \* main's time_window
    sent,              \* the e-mails handed to send_email in this run
    closed,            \* db_instance.close() was called
    failure,           \* what ended the run early: "none", or what raised
    \* history
    rows0,             \* the rows as they were when the run started
    table0,            \* table_exists as it was when the run started
    assigned,          \* every row id ever given to a row
    inserted,          \* message ids of the rows present, in insertion order
    track              \* kept when last_update is configured, per message
                       \* id: "unseen", "pinned" since its first snapshot,
                       \* or "gap" once a snapshot lacked it; and in how
                       \* many completed runs it was in the new set

\* last_update is the one policy configured
PolicyLastUpdate ==
    /\ getboolean(config.alert_new_get_by_last_update)
    /\ ~getboolean(config.alert_new_get_by_time_window)

vars == <<config, pc, runs, table_exists, rows, alert_tw, alert_lu, pin_data,
          last_update, recent_messages, time_window, sent, closed, failure,
          rows0, table0, assigned, inserted, track>>

locals == <<alert_tw, alert_lu, pin_data, last_update, recent_messages,
            time_window, sent, closed, failure>>
store == <<table_exists, rows>>
history == <<rows0, table0, assigned, inserted, track>>

Init ==
    /\ config \in Configs
    /\ pc = "import"
    /\ runs = 1
    /\ table_exists = FALSE
    /\ rows = {}
    /\ alert_tw = FALSE
    /\ alert_lu = FALSE
    /\ pin_data = <<>>
    /\ last_update = None
    /\ recent_messages = <<>>
    /\ time_window = None
    /\ sent = <<>>
    /\ closed = FALSE
    /\ failure = "none"
    /\ rows0 = {}
    /\ table0 = FALSE
    /\ assigned = {}
    /\ inserted = <<>>
    /\ track = [m \in Ids |-> [state |-> "unseen", new |-> 0]]

\* tgpin.py:63
ValidateConfig ==
    /\ pc = "import"
    /\ pc' = IF validate_config(config) = "ok" THEN "setup" ELSE "config_error"
    /\ failure' = IF validate_config(config) = "ok" THEN failure ELSE "config"
    /\ UNCHANGED <<config, runs, store, alert_tw, alert_lu, pin_data, last_update,
                   recent_messages, time_window, sent, closed, history>>

\* setup_database
SetupDatabase ==
    /\ pc = "setup"
    /\ LET res == setup_database(table_exists, config)
       IN  /\ alert_tw' = res.alert_new_get_by_time_window
           /\ alert_lu' = res.alert_new_get_by_last_update
           /\ table_exists' = res.table_exists
    /\ pc' = "fetch"
    /\ UNCHANGED <<config, runs, rows, pin_data, last_update, recent_messages,
                   time_window, sent, closed, failure, history>>

\* process_pinned_messages returns
ProcessPinnedMessages ==
    /\ pc = "fetch"
    /\ \E pinned \in Pinned :
          /\ pin_data' = pin_data_of(pinned)
          /\ track' = [m \in Ids |->
                IF ~PolicyLastUpdate THEN track[m]
                ELSE IF m \in DOMAIN pinned
                THEN IF track[m].state = "unseen"
                     THEN [state |-> "pinned", new |-> 0] ELSE track[m]
                ELSE IF track[m].state = "pinned"
                     THEN [state |-> "gap", new |-> 0] ELSE track[m]]
    /\ pc' = "prune"
    /\ UNCHANGED <<config, runs, store, alert_tw, alert_lu, last_update,
                   recent_messages, time_window, sent, closed, failure,
                   rows0, table0, assigned, inserted>>

\* A fetch whose failure is taken for an empty channel: the table is pruned
\* against the empty list before the run ends.
FetchError_after_prune ==
    /\ pc = "fetch"
    /\ pc' = "aborted"
    /\ failure' = "fetch"
    /\ rows' = remove_messages(rows, <<>>)
    /\ UNCHANGED <<config, runs, table_exists, alert_tw, alert_lu, pin_data,
                   last_update, recent_messages, time_window, sent, closed, history>>

\* process_pinned_messages raises (network, authorisation)
FetchError ==
    /\ pc = "fetch"
    /\ pc' = "aborted"
    /\ failure' = "fetch"
    /\ UNCHANGED <<config, runs, store, alert_tw, alert_lu, pin_data, last_update,
                   recent_messages, time_window, sent, closed, history>>

\* update_database, first call: remove_unpinned_messages(messages_ids)
RemoveUnpinned ==
    /\ pc = "prune"
    /\ rows' = remove_messages(rows, messages_ids(pin_data))
    /\ inserted' = SelectSeq(inserted, LAMBDA m : \E r \in rows' : r.message_id = m)
    /\ pc' = "insert"
    /\ UNCHANGED <<config, runs, table_exists, locals, rows0, table0, assigned, track>>

\* update_database, second call: insert_or_ignore(pin_data, flag)
InsertOrIgnore ==
    /\ pc = "insert"
    /\ LET res == insert_or_ignore(rows, pin_data, alert_lu)
           new == SelectSeq(messages_ids(pin_data),
                            LAMBDA m : \A r \in rows : r.message_id # m)
       IN  /\ rows' = res.rows
           /\ last_update' = res.ret
           /\ assigned' = assigned \cup {r.id : r \in res.rows \ rows}
           /\ inserted' = inserted \o new
    /\ pc' = "decide"
    /\ UNCHANGED <<config, runs, table_exists, alert_tw, alert_lu, pin_data,
                   recent_messages, time_window, sent, closed, failure, rows0, table0,
                   track>>

\* A statement of the Database raises sqlite3.Error: the DELETE of
\* remove_messages, the SELECT MAX or the INSERT of insert_or_ignore (the
\* transaction is not committed), the SELECT of get_recent_messages_by_date,
\* the SELECT of get_random_messages.  Nothing catches it and the run ends.
StoreError ==
    /\ \/ pc = "prune"
       \/ pc = "insert"
       \/ pc = "decide" /\ (alert_tw \/ (alert_lu /\ last_update # None))
       \/ pc = "alert_reminder" /\ getboolean(config.alert_reminder)
    /\ failure' = CASE pc = "prune" -> "store:prune"
                    [] pc = "insert" -> "store:insert"
                    [] pc = "decide" -> "store:query"
                    [] OTHER -> "store:sample"
    /\ pc' = "aborted"
    /\ UNCHANGED <<config, runs, store, alert_tw, alert_lu, pin_data, last_update,
                   recent_messages, time_window, sent, closed, history>>

\* get_recent_messages
GetRecentMessages ==
    /\ pc = "decide"
    /\ \E now \in Nows :
          LET tw == now - config.alert_new_time_window_minutes
          IN  /\ time_window' = tw
              /\ recent_messages' =
                    get_recent_messages(rows, alert_tw, alert_lu, last_update, tw)
    /\ pc' = "alert_new"
    /\ UNCHANGED <<config, runs, store, alert_tw, alert_lu, pin_data,
                   last_update, sent, closed, failure, history>>

\* the message ids of an alert's rows
ids_of(messages) == messages_ids(messages)

\* The alert handed over without looking at ALERT_NEW or at the count.
AlertNew_unguarded ==
    /\ pc = "alert_new"
    /\ \E ok \in BOOLEAN :
          /\ sent' = Append(sent, [type |-> "new", ids |-> ids_of(recent_messages), ok |-> ok])
          /\ pc' = IF ok THEN "alert_reminder" ELSE "aborted"
          /\ failure' = IF ok THEN failure ELSE "notifier"
    /\ UNCHANGED <<config, runs, store, alert_tw, alert_lu, pin_data,
                   last_update, recent_messages, time_window, closed, history>>

\* The insert left uncommitted: when send_email raises and the process ends,
\* the rows inserted in this run are lost.
AlertNew_uncommitted ==
    /\ pc = "alert_new"
    /\ IF getboolean(config.alert_new) /\ Len(recent_messages) > 0
       THEN \E ok \in BOOLEAN :
               /\ sent' = Append(sent, [type |-> "new", ids |-> ids_of(recent_messages), ok |-> ok])
               /\ pc' = IF ok THEN "alert_reminder" ELSE "aborted"
               /\ failure' = IF ok THEN failure ELSE "notifier"
               /\ rows' = IF ok THEN rows ELSE rows \cap rows0
       ELSE /\ pc' = "alert_reminder"
            /\ UNCHANGED <<sent, failure, rows>>
    /\ UNCHANGED <<config, runs, table_exists, alert_tw, alert_lu, pin_data,
                   last_update, recent_messages, time_window, closed, history>>

\* main, lines 464-465: process_alerts(recent_messages, ..., "new")
AlertNew ==
    /\ pc = "alert_new"
    /\ IF getboolean(config.alert_new) /\ Len(recent_messages) > 0
       THEN \E ok \in BOOLEAN :
               /\ sent' = Append(sent, [type |-> "new", ids |-> ids_of(recent_messages), ok |-> ok])
               /\ pc' = IF ok THEN "alert_reminder" ELSE "aborted"
               /\ failure' = IF ok THEN failure ELSE "notifier"
       ELSE /\ pc' = "alert_reminder"
            /\ UNCHANGED <<sent, failure>>
    /\ UNCHANGED <<config, runs, store, alert_tw, alert_lu, pin_data,
                   last_update, recent_messages, time_window, closed, history>>

\* The reminders sampled from the rows as they were before update_database.
AlertReminder_stale ==
    /\ pc = "alert_reminder"
    /\ IF getboolean(config.alert_reminder)
       THEN \E reminder_messages \in get_random_messages(rows0, config.alert_reminder_limit) :
               IF Len(reminder_messages) > 0
               THEN \E ok \in BOOLEAN :
                       /\ sent' = Append(sent, [type |-> "reminder",
                                                ids |-> ids_of(reminder_messages), ok |-> ok])
                       /\ pc' = IF ok THEN "close" ELSE "aborted"
                       /\ failure' = IF ok THEN failure ELSE "notifier"
               ELSE /\ pc' = "close"
                    /\ UNCHANGED <<sent, failure>>
       ELSE /\ pc' = "close"
            /\ UNCHANGED <<sent, failure>>
    /\ UNCHANGED <<config, runs, store, alert_tw, alert_lu, pin_data,
                   last_update, recent_messages, time_window, closed, history>>

\* main, lines 467-469: get_random_messages and process_alerts(..., "reminder")
AlertReminder ==
    /\ pc = "alert_reminder"
    /\ IF getboolean(config.alert_reminder)
       THEN \E reminder_messages \in get_random_messages(rows, config.alert_reminder_limit) :
               IF Len(reminder_messages) > 0
               THEN \E ok \in BOOLEAN :
                       /\ sent' = Append(sent, [type |-> "reminder",
                                                ids |-> ids_of(reminder_messages), ok |-> ok])
                       /\ pc' = IF ok THEN "close" ELSE "aborted"
                       /\ failure' = IF ok THEN failure ELSE "notifier"
               ELSE /\ pc' = "close"
                    /\ UNCHANGED <<sent, failure>>
       ELSE /\ pc' = "close"
            /\ UNCHANGED <<sent, failure>>
    /\ UNCHANGED <<config, runs, store, alert_tw, alert_lu, pin_data,
                   last_update, recent_messages, time_window, closed, history>>

\* main, line 471
Close ==
    /\ pc = "close"
    /\ closed' = TRUE
    /\ pc' = "done"
    /\ track' = [m \in Ids |->
          IF /\ PolicyLastUpdate
             /\ track[m].state = "pinned"
             /\ m \in Range(ids_of(recent_messages))
          THEN [track[m] EXCEPT !.new = @ + 1] ELSE track[m]]
    /\ UNCHANGED <<config, runs, store, alert_tw, alert_lu, pin_data,
                   last_update, recent_messages, time_window, sent, failure,
                   rows0, table0, assigned, inserted>>

\* The scheduler starts the next run: a new process, the same database file.
NextRun ==
    /\ pc \in {"done", "aborted", "config_error"}
    /\ runs < MaxRuns
    /\ runs' = runs + 1
    /\ pc' = "import"
    /\ alert_tw' = FALSE
    /\ alert_lu' = FALSE
    /\ pin_data' = <<>>
    /\ last_update' = None
    /\ recent_messages' = <<>>
    /\ time_window' = None
    /\ sent' = <<>>
    /\ closed' = FALSE
    /\ failure' = "none"
    /\ rows0' = rows
    /\ table0' = table_exists
    /\ UNCHANGED <<config, store, assigned, inserted, track>>

Next ==
    \/ ValidateConfig
    \/ SetupDatabase
    \/ ProcessPinnedMessages
    \/ FetchError
    \/ RemoveUnpinned
    \/ InsertOrIgnore
    \/ StoreError
    \/ GetRecentMessages
    \/ AlertNew
    \/ AlertReminder
    \/ Close
    \/ NextRun

Spec == Init /\ [][Next]_vars

\* ------------------------------------------------- the two-cycle scenario
\* Two runs over an empty table, last_update configured: the channel holds
\* messages 1, 2, 3 of one date, then 2, 3 and a message 4 dated later.
ScenarioFirst == {1, 2, 3}
ScenarioSecond == {2, 3, 4}
ScenarioAdded == 4

ScenarioInit ==
    /\ config \in {c \in Configs :
                     /\ validate_config(c) = "ok"
                     /\ getboolean(c.alert_new_get_by_last_update)
                     /\ ~getboolean(c.alert_new_get_by_time_window)}
    /\ pc = "import"
    /\ runs = 1
    /\ table_exists \in BOOLEAN
    /\ rows = {}
    /\ alert_tw = FALSE
    /\ alert_lu = FALSE
    /\ pin_data = <<>>
    /\ last_update = None
    /\ recent_messages = <<>>
    /\ time_window = None
    /\ sent = <<>>
    /\ closed = FALSE
    /\ failure = "none"
    /\ rows0 = {}
    /\ table0 = table_exists
    /\ assigned = {}
    /\ inserted = <<>>
    /\ track = [m \in Ids |-> [state |-> "unseen", new |-> 0]]

\* process_pinned_messages returns the scenario's snapshot of this run
ScenarioFetch ==
    /\ pc = "fetch"
    /\ \E t \in 1..(MaxDate - 1) : \E b \in [ScenarioFirst \cup ScenarioSecond -> Bodies] :
          /\ \A r \in rows : r.date = t
          /\ pin_data' = pin_data_of(
                [m \in (IF runs = 1 THEN ScenarioFirst ELSE ScenarioSecond) |->
                    [message |-> b[m].message,
                     date |-> IF m = ScenarioAdded THEN t + 1 ELSE t,
                     photo |-> b[m].photo]])
    /\ pc' = "prune"
    /\ UNCHANGED <<config, runs, store, alert_tw, alert_lu, last_update,
                   recent_messages, time_window, sent, closed, failure, history>>

\* the second run of the scenario is started
ScenarioNextRun == runs = 1 /\ NextRun

ScenarioNext ==
    \/ ValidateConfig
    \/ SetupDatabase
    \/ ScenarioFetch
    \/ RemoveUnpinned
    \/ InsertOrIgnore
    \/ GetRecentMessages
    \/ AlertNew
    \/ AlertReminder
    \/ Close
    \/ ScenarioNextRun

ScenarioSpec == ScenarioInit /\ [][ScenarioNext]_vars

\* ------------------------------------------------------------------- claims
StoreIds(R) == {r.message_id : r \in R}
SnapshotIds == Range(messages_ids(pin_data))

\* both policy switches on, or both off
BadPolicy ==
    getboolean(config.alert_new_get_by_time_window)
        = getboolean(config.alert_new_get_by_last_update)

\* update_database has returned in this run
Reconciled ==
    \/ pc \in {"decide", "alert_new", "alert_reminder", "close", "done"}
    \/ pc = "aborted" /\ failure \in {"notifier", "store:query", "store:sample"}
\* get_recent_messages has returned in this run
Decided ==
    \/ pc \in {"alert_new", "alert_reminder", "close", "done"}
    \/ pc = "aborted" /\ failure \in {"notifier", "store:sample"}
\* setup_database has returned in this run
SetUp == pc \notin {"import", "config_error", "setup"}

\* C1: once update_database has returned, the message ids in the table are
\* exactly the message ids of the snapshot it was given.
PruneCompleteness == Reconciled => StoreIds(rows) = SnapshotIds

\* a run that both pruned a row and inserted one
PruneCompletenessWitness ==
    /\ Reconciled
    /\ StoreIds(rows0) \ SnapshotIds # {}
    /\ SnapshotIds \ StoreIds(rows0) # {}

\* C2: the watermark update_database returns (under a valid policy
\* configuration, last_update selected) is the largest date of the rows as
\* they were when the cycle started, rows this cycle prunes included.
WatermarkBeforeMutate ==
    (Reconciled /\ alert_lu /\ ~BadPolicy) => last_update = get_last_update(rows0)

\* the snapshot's items whose message id was not in the table at the start
NewItems == {i \in 1..Len(pin_data) : pin_data[i].message_id \notin StoreIds(rows0)}

\* C3: a non-empty table with largest date T0, a snapshot with exactly one
\* item not in the table, dated T1 > T0: the last-update policy reports
\* exactly that item.
WatermarkOrdering ==
    (/\ Decided
     /\ alert_lu /\ ~alert_tw
     /\ rows0 # {}
     /\ Cardinality(NewItems) = 1
     /\ \A i \in NewItems : pin_data[i].date > get_last_update(rows0))
    => /\ Len(recent_messages) = 1
       /\ \A i \in NewItems :
             /\ recent_messages[1].message_id = pin_data[i].message_id
             /\ recent_messages[1].message = pin_data[i].message
             /\ recent_messages[1].date = pin_data[i].date
             /\ recent_messages[1].photo = pin_data[i].photo

\* C4: with both policy switches on, or both off, validate_config raises, and
\* the run never gets past the import to setup_database and the fetch.
MutualExclusivity == BadPolicy => pc \in {"import", "config_error"}

\* C5: reconciling the snapshot of a completed reconciliation once more leaves
\* every row as it is: the same rows, ids, texts, dates and photos.
IdempotentReconciliation ==
    Reconciled => update_database(rows, pin_data, alert_lu).rows = rows

\* a reconciled table holding a row whose text is not the snapshot's
IdempotentReconciliationWitness ==
    /\ Reconciled
    /\ Cardinality(rows) >= 2
    /\ \E r \in rows : \E i \in 1..Len(pin_data) :
          r.message_id = pin_data[i].message_id /\ r.message # pin_data[i].message

\* what the insert_or_ignore step of update_database does to the rows
InsertOrIgnoreStep ==
    pc = "insert" =>
        /\ \A r \in rows : r \in rows'
        /\ \A r \in rows' \ rows :
              /\ r.message_id \notin StoreIds(rows)
              /\ \E i \in 1..Len(pin_data) :
                    /\ pin_data[i].message_id = r.message_id
                    /\ pin_data[i].message = r.message
                    /\ pin_data[i].date = r.date
                    /\ pin_data[i].photo = r.photo
        /\ pc' = "decide" =>
              \A i \in 1..Len(pin_data) : pin_data[i].message_id \in StoreIds(rows')
        /\ Cardinality(rows') = Cardinality(StoreIds(rows'))

\* C6: insert_or_ignore leaves every row already in the table as it is (id,
\* text, date, photo), whatever the item with the same message id carries; it
\* adds one row for each item whose message id is absent and nothing else; and
\* with an empty list the table stays as it is.
InsertOrIgnoreNeverUpdates ==
    [][/\ InsertOrIgnoreStep
       /\ insert_or_ignore(rows, <<>>, alert_lu).rows = rows]_vars

\* after the insert, a row whose text and date both differ from the item's
InsertOrIgnoreNeverUpdatesWitness ==
    /\ pc = "decide"
    /\ \E r \in rows : \E i \in 1..Len(pin_data) :
          /\ r.message_id = pin_data[i].message_id
          /\ r.message # pin_data[i].message
          /\ r.date # pin_data[i].date
          /\ r.photo # pin_data[i].photo
    /\ \E i \in 1..Len(pin_data) : pin_data[i].message_id \notin StoreIds(rows0)

\* C7: a row id that was given to a row once is never given to a row
\* inserted later (stated for the runs of a valid policy configuration).
SequenceNeverReused ==
    [][~BadPolicy => \A r \in rows' \ rows : r.id \notin assigned]_vars

\* the rows present, taken in insertion order, have increasing ids
RowOf(m) == CHOOSE r \in rows : r.message_id = m
InsertionOrder ==
    /\ Range(inserted) = StoreIds(rows)
    /\ Len(inserted) = Cardinality(rows)
    /\ \A i, j \in 1..Len(inserted) :
          i < j => RowOf(inserted[i]).id < RowOf(inserted[j]).id

\* C8: of two rows present, the one inserted later has the greater id, and a
\* row keeps its id for as long as it stays in the table.
SequenceFollowsInsertion ==
    /\ []InsertionOrder
    /\ [][\A r \in rows : \A q \in rows' :
             r.message_id = q.message_id => q.id = r.id]_vars

\* a row with the smaller message id was inserted after one with the larger
\* message id, in a later run and after a prune
SequenceFollowsInsertionWitness ==
    /\ Reconciled
    /\ \E i, j \in 1..Len(inserted) : i < j /\ inserted[i] > inserted[j]
    /\ \E n \in assigned : \A r \in rows : r.id # n

EmptyStoreFallback ==
    (Decided /\ PolicyLastUpdate /\ rows0 = {})
        => recent_messages = get_recent_messages_by_date(rows, time_window)

\* C11: with last_update the only active policy, the new set is the rows dated
\* strictly after the watermark update_database returned, each once, and it
\* is empty when there is no watermark.
LastUpdateRule ==
    (Decided /\ alert_lu /\ ~alert_tw) =>
        IF last_update # None
        THEN /\ Range(recent_messages) = {r \in rows : r.date > last_update}
             /\ Len(recent_messages) = Cardinality(Range(recent_messages))
        ELSE recent_messages = <<>>

\* a new set taken while a row dated exactly at the watermark stays out of it
LastUpdateRuleWitness ==
    /\ Decided /\ alert_lu /\ ~alert_tw
    /\ last_update # None
    /\ recent_messages # <<>>
    /\ \E r \in rows : r.date = last_update

\* C12: with both alerts enabled and both result sets non-empty, a failed
\* hand-over of the new-items alert does not end the run.
PerAlertIsolation ==
    (/\ ~BadPolicy
     /\ getboolean(config.alert_new) /\ getboolean(config.alert_reminder)
     /\ rows # {} /\ config.alert_reminder_limit # 0
     /\ \E i \in 1..Len(sent) : sent[i].type = "new" /\ ~sent[i].ok)
    => pc # "aborted"

\* C13: from the moment the new set is taken to the end of the run, whatever
\* send_email does, the table holds exactly the rows the reconciliation of
\* this run left.
DurableReconciliation ==
    Decided => rows = update_database(rows0, pin_data, alert_lu).rows

\* a run ended by send_email raising, after a reconciliation that both kept
\* and added rows
DurableReconciliationWitness ==
    /\ pc = "aborted" /\ failure = "notifier"
    /\ rows \ rows0 # {}
    /\ rows \cap rows0 # {}

\* C14: a run ended by a failing statement of the Database has handed no
\* alert to send_email.
StoreFailures == {"store:prune", "store:insert", "store:query", "store:sample"}
StoreFailureBeforeDispatch ==
    (failure \in StoreFailures /\ ~BadPolicy) => sent = <<>>

DispatchGuard ==
    /\ \A i \in 1..Len(sent) :
          /\ sent[i].ids # <<>>
          /\ sent[i].type = "new" =>
                /\ getboolean(config.alert_new)
                /\ sent[i].ids = ids_of(recent_messages)
          /\ sent[i].type = "reminder" =>
                /\ getboolean(config.alert_reminder)
                /\ Range(sent[i].ids) \subseteq StoreIds(rows)
    /\ (pc = "done" /\ sent = <<>>) =>
          rows = update_database(rows0, pin_data, alert_lu).rows

\* a finished run with new items but the new alert disabled, and the reminder
\* enabled with nothing to sample: nothing was handed over
DispatchGuardWitness ==
    /\ pc = "done"
    /\ ~getboolean(config.alert_new)
    /\ recent_messages # <<>>
    /\ getboolean(config.alert_reminder)
    /\ config.alert_reminder_limit = 0
    /\ sent = <<>>
    /\ rows # rows0

\* C17: for every count n, get_random_messages(n) returns no more than
\* min(n, count()) rows (no row at all when that is negative) and no row twice.
SampleCounts == (0 - 2)..(MaxId + 1)
SamplerBounds ==
    ~BadPolicy =>
        \A n \in SampleCounts : \A s \in get_random_messages(rows, n) :
            /\ Len(s) <= Max({0, Min({n, get_count(rows)})})
            /\ Cardinality(StoreIds(Range(s))) = Len(s)

\* C18: with a reminder limit of zero or less no reminder e-mail is handed
\* over.
NonPositiveLimit ==
    (~BadPolicy /\ config.alert_reminder_limit <= 0) =>
        \A i \in 1..Len(sent) : sent[i].type # "reminder"

\* C19: remove_messages with no id to keep deletes every row; after the
\* reconciliation of an empty snapshot the table has no row, MAX(date) is
\* absent and no watermark was returned.
EmptySnapshotEmptiesStore ==
    /\ remove_messages(rows, <<>>) = {}
    /\ (pc = "insert" /\ pin_data = <<>>) => rows = {}
    /\ (Reconciled /\ pin_data = <<>>) =>
          /\ rows = {}
          /\ get_last_update(rows) = None
          /\ last_update = None

\* an empty snapshot reconciled over a table that held rows
EmptySnapshotEmptiesStoreWitness ==
    /\ Reconciled
    /\ pin_data = <<>>
    /\ Cardinality(rows0) >= 2

\* C20: for every threshold, get_recent_messages_by_date returns its rows in
\* ascending order of message id.
DeterministicQueryOrder ==
    ~BadPolicy =>
        \A t \in 0..MaxDate :
            LET res == get_recent_messages_by_date(rows, t)
            IN  \A i, j \in 1..Len(res) : i < j => res[i].message_id < res[j].message_id

\* get_random_messages has returned in this run
Sampled ==
    \/ pc \in {"close", "done"} /\ getboolean(config.alert_reminder)
    \/ \E i \in 1..Len(sent) : sent[i].type = "reminder"

\* C21: in every run no row changes before the fetch has returned, the new
\* set is taken on the reconciled table, the reminders are sampled (when the
\* reminder is enabled) before the first e-mail is handed to send_email (no
\* hand-over having failed), and
\* the Database is closed when the run is done.
PhaseOrdering ==
    ~BadPolicy =>
        /\ (pc \in {"import", "setup", "fetch"} \/ failure = "fetch") => rows = rows0
        /\ Decided => StoreIds(rows) = SnapshotIds
        /\ (/\ getboolean(config.alert_reminder)
            /\ sent # <<>>
            /\ \A i \in 1..Len(sent) : sent[i].ok) => Sampled
        /\ pc = "done" => closed

\* C23, as claimed: the second value get_recent_messages returns is the
\* boundary that selected the new set: under last_update with a watermark,
\* the watermark.
BoundaryReported ==
    (Decided /\ ~BadPolicy) =>
        /\ alert_tw => Range(recent_messages) = {r \in rows : r.date > time_window}
        /\ (alert_lu /\ ~alert_tw /\ last_update # None) => time_window = last_update

\* C24: under last_update no row that was in the table when the run started
\* is in the new set: every row of the new set was inserted by this run.
NewSetInsertedThisCycle ==
    (Decided /\ alert_lu /\ ~alert_tw) =>
        \A i \in 1..Len(recent_messages) :
            /\ recent_messages[i] \in rows \ rows0
            /\ recent_messages[i].message_id \notin StoreIds(rows0)

\* a new set reported next to a surviving row dated at the watermark
NewSetInsertedThisCycleWitness ==
    /\ Decided /\ alert_lu /\ ~alert_tw
    /\ recent_messages # <<>>
    /\ \E r \in rows \cap rows0 : r.date = last_update

\* C26: every message id in an e-mail handed to send_email is in the snapshot
\* fetched by the same run; no row pruned by the run is in either e-mail.
NoAlertAboutUnpinned ==
    \A i \in 1..Len(sent) :
        /\ Range(sent[i].ids) \subseteq SnapshotIds
        /\ Range(sent[i].ids) \cap (StoreIds(rows0) \ SnapshotIds) = {}

\* a run that pruned a row and handed over both e-mails
NoAlertAboutUnpinnedWitness ==
    /\ StoreIds(rows0) \ SnapshotIds # {}
    /\ \E i \in 1..Len(sent) : sent[i].type = "new"
    /\ \E i \in 1..Len(sent) : sent[i].type = "reminder"

\* the rows dated after a boundary
After(boundary) == {r \in rows : r.date > boundary}

\* C27: the new set is the time-window query's result whenever the
\* time_window switch is on, the other switch on or off; the watermark
\* query's result when time_window is off, last_update is on and there is a
\* watermark; and empty in every other case.
PolicyPrecedence ==
    Decided =>
        /\ Len(recent_messages) = Cardinality(Range(recent_messages))
        /\ Range(recent_messages) =
              IF alert_tw THEN After(time_window)
              ELSE IF alert_lu /\ last_update # None THEN After(last_update)
              ELSE {}

\* both switches on with a watermark, and the two queries differ
PolicyPrecedenceWitness ==
    /\ Decided
    /\ alert_tw /\ alert_lu
    /\ last_update # None
    /\ After(time_window) # After(last_update)
    /\ After(last_update) # {}

\* C25: with last_update configured, a message that has been in every
\* snapshot since the first one that held it was in the new set of at most
\* one completed run.
AtMostOnceAlerting ==
    PolicyLastUpdate =>
        \A m \in Ids : track[m].state = "pinned" => track[m].new <= 1

\* the third run done, with a message pinned since the first run, reported
\* once, and not in this run's new set
AtMostOnceAlertingWitness ==
    /\ PolicyLastUpdate
    /\ pc = "done" /\ runs = MaxRuns
    /\ \E m \in Ids :
          /\ track[m] = [state |-> "pinned", new |-> 1]
          /\ m \notin Range(ids_of(recent_messages))
          /\ \E r \in rows0 : r.message_id = m /\ r.date > 1

\* the date t of the scenario, read from the snapshot of the run
ScenarioT ==
    IF runs = 1 THEN pin_data[1].date ELSE pin_data[Len(pin_data)].date - 1

\* C22: over an empty table, the snapshot 1, 2, 3 (all dated t) leaves exactly
\* rows 1, 2, 3 with ids 1, 2, 3; the snapshot 2, 3, 4 (4 dated later) then
\* leaves exactly 2, 3, 4, rows 2 and 3 as they were, row 4 with an id no row
\* had before, the watermark t, and the last-update new set is 4 alone.
TwoCycleScenario ==
    /\ (runs = 1 /\ Reconciled) =>
          /\ StoreIds(rows) = ScenarioFirst
          /\ \A r \in rows : r.id = r.message_id /\ r.date = ScenarioT
    /\ (runs # 1 /\ Reconciled) =>
          /\ StoreIds(rows) = ScenarioSecond
          /\ {r \in rows : r.message_id # ScenarioAdded} \subseteq rows0
          /\ \A r \in rows : r.message_id = ScenarioAdded =>
                /\ r.id \notin {q.id : q \in rows0}
                /\ r.id \notin ScenarioFirst
                /\ r.date = ScenarioT + 1
          /\ alert_lu /\ ~alert_tw
          /\ last_update = ScenarioT
    /\ (runs # 1 /\ Decided) => ids_of(recent_messages) = <<ScenarioAdded>>

\* the second run done, message 4 reported as new
TwoCycleScenarioWitness ==
    /\ runs # 1
    /\ pc = "done"
    /\ StoreIds(rows0) = ScenarioFirst
    /\ \E i \in 1..Len(sent) : sent[i].type = "new" /\ sent[i].ids = <<ScenarioAdded>>

====
